---- MODULE Spec2Model ----
(***************************************************************************)
(* Model of the PRESTO .dat time-series reader, formats/datfile.py         *)
(* (class Datfile).                                                        *)
(*                                                                         *)
(* Units.  Times (seconds in the source) are exact integer counts of a     *)
(* tick; the sample interval infdata.dt is a whole number of ticks, so a   *)
(* requested duration can fall between two samples and np.round has        *)
(* something to round.  MJDs (days in the source) are integer counts of    *)
(* 1/SECPERDAY of a tick-day, the unit in which `t / float(SECPERDAY)` of  *)
(* a tick count t is again the integer t.  Floating point rounding error   *)
(* is not modelled: arithmetic is exact.                                   *)
(*                                                                         *)
(* The sample file holds infdata.N samples of bytes_per_sample bytes;      *)
(* sample i (0-based) is identified with its index i.                      *)
(*                                                                         *)
(* Construction (Datfile.__init__, correct_infdata) is followed on its     *)
(* own, from a path `datfn` and the content `sidecar` of the .inf file to  *)
(* the reader or the exception; `opened` keeps the files opened on the     *)
(* way.  There the tick is 0.01 microseconds, frequencies are counted in   *)
(* 1/4096 MHz, and an epoch is a whole MJD (epoch_day) plus ticks (epoch). *)
(*                                                                         *)
(* write_debaselined, parse_candlist (formats/accelcands.py) and the key   *)
(* handler of bin/pyplotres.py are each followed in a specification of     *)
(* their own (SpecWrite, SpecCands, SpecPlot).                             *)
(***************************************************************************)
EXTENDS Integers, Sequences, FiniteSets, TLC

VARIABLES self, call, ret, pre, windows, gen, datfn, sidecar, opened,
          inflines, written, candlist, plot

vars == <<self, call, ret, pre, windows, gen, datfn, sidecar, opened,
          inflines, written, candlist, plot>>

\* what the calls on a reader leave alone: the text of the .inf file and the
\* files write_debaselined writes, the candidate list parse_candlist is
\* given, and the axes of pyplotres
others == <<inflines, written, candlist, plot>>

\* ------------------------------------------------------------ bounds
MaxN == 3          \* largest sample count infdata.N of a file
MaxDt == 3         \* largest sample interval infdata.dt, in ticks
MaxT == 8          \* largest duration / time a caller passes, in ticks
MaxP == 4          \* largest base period a period function returns, in ticks
MaxSkip == 2       \* largest time_to_skip passed to pulses, in ticks
MaxReads == 4      \* longest run of equal read_Tseconds calls followed
MaxLines == 3      \* most lines of an .inf file or a candidate list

\* ------------------------------------------------------------ constants
bytes_per_sample == 4

\* the epoch of the files that carry one, as an MJD numerator
Epochs == {1000}

\* ------------------------------------------------------------ metadata
\* infodata.infodata(inffn): the fields of the sidecar the reader uses.
\* hasepoch is hasattr(infdata, 'epoch'); epoch is read only when it holds.
Infdatas ==
    { [N |-> n, dt |-> d, hasepoch |-> h, epoch |-> e] :
        n \in 1..MaxN, d \in 1..MaxDt, h \in BOOLEAN, e \in Epochs }

\* ------------------------------------------------------------ results
\* What a call hands back: None, a numpy array, a number, nothing, or an
\* exception (exc names its class) that left the call.
RetNone == [kind |-> "None", data |-> <<>>, val |-> 0, exc |-> ""]
RetData(d) == [kind |-> "data", data |-> d, val |-> 0, exc |-> ""]
RetInt(v) == [kind |-> "int", data |-> <<>>, val |-> v, exc |-> ""]
RetVoid == [kind |-> "void", data |-> <<>>, val |-> 0, exc |-> ""]
Raise(e) == [kind |-> "raise", data |-> <<>>, val |-> 0, exc |-> e]
RetRaise == Raise("ValueError")
\* What next() on the generator of pulses hands back: the pulse yielded, or
\* the end of the iteration (StopIteration, which a for loop absorbs).
RetYield(p) == [kind |-> "yield", data |-> p.profile, val |-> p.number, exc |-> ""]
RetStop == [kind |-> "stop", data |-> <<>>, val |-> 0, exc |-> ""]
\* The spline get_baseline_spline returns: xx2 holds the window midpoints
\* xx doubled (istart + iend), iend is the upper end of bbox.  The fit
\* itself is SciPy's and is not modelled.
RetSpline(xx2, iend) == [kind |-> "spline", data |-> xx2, val |-> iend, exc |-> ""]

\* ------------------------------------------------------------ helpers
Min(a, b) == IF a < b THEN a ELSE b
Max(a, b) == IF a > b THEN a ELSE b

\* np.round(a / b) for b > 0: nearest integer, halves to the even one.
np_round(a, b) ==
    LET q == a \div b
        r == a % b
    IN  IF 2 * r < b THEN q
        ELSE IF 2 * r > b THEN q + 1
        ELSE IF q % 2 = 0 THEN q ELSE q + 1

\* The samples with indices first .. first+k-1, in file order.
Samples(first, k) == [j \in 1..k |-> first + j - 1]

\* np.fromfile as it would be if every call read from where the last one
\* started: the file offset is not moved by the read.
np_fromfile_keeps_offset(s, count) ==
    LET pos == s.datfile \div bytes_per_sample
        left == s.infdata.N - pos
        k == IF count >= 0 THEN Min(count, Max(left, 0)) ELSE left
    IN  IF k < 0
        THEN [self |-> s, ret |-> RetRaise]
        ELSE [self |-> s, ret |-> RetData(Samples(pos, k))]

\* np.fromfile(datfile, count=count) at byte offset s.datfile of a file of
\* s.infdata.N samples.  count >= 0 reads as many whole samples as the file
\* still holds, up to count; count < 0 reads to the end of the file, and
\* fails (negative array size) when the offset lies beyond the end.
np_fromfile(s, count) ==
    LET pos == s.datfile \div bytes_per_sample
        left == s.infdata.N - pos
        k == IF count >= 0 THEN Min(count, Max(left, 0)) ELSE left
    IN  IF k < 0
        THEN [self |-> s, ret |-> RetRaise]
        ELSE [self |-> [s EXCEPT !.datfile = @ + k * bytes_per_sample],
              ret |-> RetData(Samples(pos, k))]

\* ------------------------------------------------------------ Datfile
\* rewind as it would be without the reset of the desired time.
rewind_keeps_desired(s) ==
    LET s1 == [s EXCEPT !.datfile = 0,
                        !.currsample = 0,
                        !.currtime_actual = 0]
    IN  IF s.infdata.hasepoch
        THEN [s1 EXCEPT !.currmjd_actual = s.infdata.epoch,
                        !.currmjd_desired = s.infdata.epoch]
        ELSE s1

\* Datfile.rewind
rewind(s) ==
    LET s1 == [s EXCEPT !.datfile = 0,
                        !.currsample = 0,
                        !.currtime_actual = 0,
                        !.currtime_desired = 0]
    IN  IF s.infdata.hasepoch
        THEN [s1 EXCEPT !.currmjd_actual = s.infdata.epoch,
                        !.currmjd_desired = s.infdata.epoch]
        ELSE s1

\* __read as it would be with the counters advanced before the test for the
\* end of the file.
__read_counts_first(s, N) ==
    LET new_curr_sample == s.currsample + N
        s1 == [s EXCEPT !.currsample = new_curr_sample]
        s2 == IF s.infdata.hasepoch
              THEN [s1 EXCEPT !.currmjd_actual = @ + s.infdata.dt * N]
              ELSE s1
        s3 == [s2 EXCEPT !.currtime_actual = @ + s.infdata.dt * N]
    IN  IF new_curr_sample > s.infdata.N
        THEN [self |-> s3, ret |-> RetNone]
        ELSE np_fromfile(s3, N)

\* __read as it would be with the end-of-file test off by one: the last
\* sample of the file can never be read.
__read_stops_short(s, N) ==
    LET new_curr_sample == s.currsample + N
    IN  IF new_curr_sample >= s.infdata.N
        THEN [self |-> s, ret |-> RetNone]
        ELSE LET s1 == [s EXCEPT !.currsample = new_curr_sample]
                 s2 == IF s.infdata.hasepoch
                       THEN [s1 EXCEPT !.currmjd_actual = @ + s.infdata.dt * N]
                       ELSE s1
                 s3 == [s2 EXCEPT !.currtime_actual = @ + s.infdata.dt * N]
             IN  np_fromfile(s3, N)

\* Datfile.__read
__read(s, N) ==
    LET new_curr_sample == s.currsample + N
    IN  IF new_curr_sample > s.infdata.N
        THEN [self |-> s, ret |-> RetNone]
        ELSE LET s1 == [s EXCEPT !.currsample = new_curr_sample]
                 s2 == IF s.infdata.hasepoch
                       THEN [s1 EXCEPT !.currmjd_actual = @ + s.infdata.dt * N]
                       ELSE s1
                 s3 == [s2 EXCEPT !.currtime_actual = @ + s.infdata.dt * N]
             IN  np_fromfile(s3, N)

\* __seek as it would be without the update of the actual time.
__seek_keeps_time(s, N) ==
    LET s1 == [s EXCEPT !.datfile = N * bytes_per_sample,
                        !.currsample = N]
    IN  IF s.infdata.hasepoch
        THEN [s1 EXCEPT !.currmjd_actual = s.infdata.dt * N]
        ELSE s1

\* Datfile.__seek
__seek(s, N) ==
    LET s1 == [s EXCEPT !.datfile = N * bytes_per_sample,
                        !.currsample = N]
        s2 == IF s.infdata.hasepoch
              THEN [s1 EXCEPT !.currmjd_actual = s.infdata.dt * N]
              ELSE s1
    IN  [s2 EXCEPT !.currtime_actual = s.infdata.dt * N]

\* Datfile.__update_desired_time
__update_desired_time(s, T) ==
    LET s1 == [s EXCEPT !.currtime_desired = @ + T]
    IN  IF s.infdata.hasepoch
        THEN [s1 EXCEPT !.currmjd_desired = @ + T]
        ELSE s1

\* Datfile.read_Nsamples
read_Nsamples(s, N) ==
    LET r == __read(s, N)
    IN  IF r.ret.kind = "data"
        THEN [self |-> __update_desired_time(r.self, N * s.infdata.dt),
              ret |-> r.ret]
        ELSE r

\* Datfile.read_to
read_to(s, N) ==
    LET numtoread == IF N = -1
                     THEN s.infdata.N - s.currsample
                     ELSE N - s.currsample
    IN  read_Nsamples(s, numtoread)

\* seek_to as it would be without the rewind: the target sample is worked
\* out from the counters the reader happens to have.
seek_to_no_rewind(s, T) ==
    LET endsample == np_round(s.currtime_desired + T, s.infdata.dt)
        sample_num == endsample - s.currsample
        s1 == __seek(s, sample_num)
        s2 == [s1 EXCEPT !.currtime_desired = T]
        s3 == IF s.infdata.hasepoch
              THEN [s2 EXCEPT !.currmjd_desired = s.infdata.epoch + T]
              ELSE s2
    IN  [self |-> s3, ret |-> RetInt(sample_num)]

\* Datfile.seek_to
seek_to(s, T) ==
    LET s0 == rewind(s)
        endsample == np_round(s0.currtime_desired + T, s0.infdata.dt)
        sample_num == endsample - s0.currsample
        s1 == __seek(s0, sample_num)
        s2 == [s1 EXCEPT !.currtime_desired = T]
        s3 == IF s.infdata.hasepoch
              THEN [s2 EXCEPT !.currmjd_desired = s.infdata.epoch + T]
              ELSE s2
    IN  [self |-> s3, ret |-> RetInt(sample_num)]

\* read_Tseconds as it would be reading one sample more than the rounded
\* end of the request.
read_Tseconds_one_more(s, T) ==
    LET endsample == np_round(s.currtime_desired + T, s.infdata.dt)
        num_samples_to_read == endsample - s.currsample + 1
        r == __read(s, num_samples_to_read)
    IN  IF r.ret.kind = "data"
        THEN [self |-> __update_desired_time(r.self, T), ret |-> r.ret]
        ELSE r

\* Datfile.read_Tseconds
read_Tseconds(s, T) ==
    LET endsample == np_round(s.currtime_desired + T, s.infdata.dt)
        num_samples_to_read == endsample - s.currsample
        r == __read(s, num_samples_to_read)
    IN  IF r.ret.kind = "data"
        THEN [self |-> __update_desired_time(r.self, T), ret |-> r.ret]
        ELSE r

\* Datfile.read_all
read_all(s) == __read(rewind(s), s.infdata.N)

\* The blocks get_baseline_spline reads: block = read_Tseconds(span) before
\* the loop and at the end of each pass, until a read hands back no array.
RECURSIVE baseline_blocks(_, _, _)
baseline_blocks(s, span, blocks) ==
    LET r == read_Tseconds(s, span)
    IN  IF r.ret.kind = "data"
        THEN baseline_blocks(r.self, span, Append(blocks, r.ret.data))
        ELSE [self |-> r.self, blocks |-> blocks, last |-> r.ret]

\* istart of pass i of the loop: the lengths of the blocks before it.
RECURSIVE istart_of(_, _)
istart_of(blocks, i) ==
    IF i <= 1 THEN 0 ELSE istart_of(blocks, i - 1) + Len(blocks[i - 1])

\* Datfile.get_baseline_spline.  With no block read the loop body never
\* runs and `iend` is unbound where the spline is built.
get_baseline_spline(s, span) ==
    LET b == baseline_blocks(rewind(s), span, <<>>)
        n == Len(b.blocks)
        xx2 == [i \in 1..n |-> 2 * istart_of(b.blocks, i) + Len(b.blocks[i])]
    IN  [self |-> b.self,
         blocks |-> b.blocks,
         ret |-> IF b.last.kind = "raise" THEN b.last
                 ELSE IF n = 0 THEN Raise("UnboundLocalError")
                 ELSE RetSpline(xx2, istart_of(b.blocks, n + 1))]

\* ------------------------------------------------------------ pulses
\* The period functions a caller passes as period_at_mjd: the period P, or
\* a period that depends on the MJD it is asked for (P or P + 1).
PeriodFns == { [P |-> p, slope |-> k] : p \in 1..MaxP, k \in {0, 1} }

period_at_mjd(f, mjd) == f.P + f.slope * (mjd % 2)

\* The generator object of Datfile.pulses: pc is where its frame stands
\* ("created": not started, "suspended": at the yield, "done": returned or
\* left by an exception), the other fields are its arguments and locals;
\* out keeps the pulses yielded so far, asked the MJDs period_at_mjd was
\* called with.
NoGen ==
    [pc |-> "none", period |-> [P |-> 1, slope |-> 0], time_to_skip |-> 0,
     pulse_number |-> 0, current_time |-> 0, current_mjd |-> 0,
     current_period |-> 0, out |-> <<>>, asked |-> <<>>]

NewGen(f, skip) == [NoGen EXCEPT !.pc = "created", !.period = f, !.time_to_skip = skip]

\* pulse.Pulse(number=..., mjd=..., time=..., duration=..., profile=...);
\* the metadata copied from infdata is left out.
Pulse(g, profile) ==
    [number |-> g.pulse_number, mjd |-> g.current_mjd, time |-> g.current_time,
     duration |-> g.current_period, profile |-> profile]

\* The loop of pulses as it would be with `while True`: a read that hands
\* back None is yielded as a pulse without samples.
pulses_read_no_end_test(s, g, number) ==
    LET current_time == s.currtime_actual
        current_mjd == s.currmjd_actual
        current_period == period_at_mjd(g.period, current_mjd)
        current_pulse == read_Tseconds(s, current_period)
        g1 == [g EXCEPT !.pulse_number = number,
                        !.current_time = current_time,
                        !.current_mjd = current_mjd,
                        !.current_period = current_period,
                        !.asked = Append(@, current_mjd)]
    IN  IF current_pulse.ret.kind # "raise"
        THEN LET p == Pulse(g1, current_pulse.ret.data)
             IN  [self |-> current_pulse.self,
                  gen |-> [g1 EXCEPT !.pc = "suspended", !.out = Append(@, p)],
                  ret |-> RetYield(p)]
        ELSE [self |-> current_pulse.self,
              gen |-> [g1 EXCEPT !.pc = "done"],
              ret |-> current_pulse.ret]

\* The loop of pulses as it would be with the time copied after the read.
pulses_read_captures_after(s, g, number) ==
    LET current_mjd == s.currmjd_actual
        current_period == period_at_mjd(g.period, current_mjd)
        current_pulse == read_Tseconds(s, current_period)
        current_time == current_pulse.self.currtime_actual
        g1 == [g EXCEPT !.pulse_number = number,
                        !.current_time = current_time,
                        !.current_mjd = current_mjd,
                        !.current_period = current_period,
                        !.asked = Append(@, current_mjd)]
    IN  IF current_pulse.ret.kind = "data"
        THEN LET p == Pulse(g1, current_pulse.ret.data)
             IN  [self |-> current_pulse.self,
                  gen |-> [g1 EXCEPT !.pc = "suspended", !.out = Append(@, p)],
                  ret |-> RetYield(p)]
        ELSE [self |-> current_pulse.self,
              gen |-> [g1 EXCEPT !.pc = "done"],
              ret |-> IF current_pulse.ret.kind = "None"
                      THEN RetStop ELSE current_pulse.ret]

\* Datfile.pulses, lines 252-260 and 272-275 with the loop test: copy the
\* actual time and MJD, ask for the period, read it, and yield the pulse
\* or, on None, leave the loop.
pulses_read(s, g, number) ==
    LET current_time == s.currtime_actual
        current_mjd == s.currmjd_actual
        current_period == period_at_mjd(g.period, current_mjd)
        current_pulse == read_Tseconds(s, current_period)
        g1 == [g EXCEPT !.pulse_number = number,
                        !.current_time = current_time,
                        !.current_mjd = current_mjd,
                        !.current_period = current_period,
                        !.asked = Append(@, current_mjd)]
    IN  IF current_pulse.ret.kind = "data"
        THEN LET p == Pulse(g1, current_pulse.ret.data)
             IN  [self |-> current_pulse.self,
                  gen |-> [g1 EXCEPT !.pc = "suspended", !.out = Append(@, p)],
                  ret |-> RetYield(p)]
        ELSE [self |-> current_pulse.self,
              gen |-> [g1 EXCEPT !.pc = "done"],
              ret |-> IF current_pulse.ret.kind = "None"
                      THEN RetStop ELSE current_pulse.ret]

\* pulses as it would be without the rewind: the iteration starts where the
\* reader happens to stand.
pulses_start_no_rewind(s, g) ==
    IF ~s.infdata.hasepoch
    THEN [self |-> s, gen |-> [g EXCEPT !.pc = "done"],
          ret |-> Raise("NotImplementedError")]
    ELSE LET burn == IF g.time_to_skip > 0
                     THEN read_Tseconds(s, g.time_to_skip)
                     ELSE [self |-> s, ret |-> RetVoid]
         IN  IF burn.ret.kind = "raise"
             THEN [self |-> burn.self, gen |-> [g EXCEPT !.pc = "done"],
                   ret |-> burn.ret]
             ELSE pulses_read(burn.self, g, 1)

\* pulses as it would be with the rewind ahead of the test for the epoch.
pulses_start_rewinds_first(s, g) ==
    LET s0 == rewind(s)
    IN  IF ~s.infdata.hasepoch
        THEN [self |-> s0, gen |-> [g EXCEPT !.pc = "done"],
              ret |-> Raise("NotImplementedError")]
        ELSE LET burn == IF g.time_to_skip > 0
                         THEN read_Tseconds(s0, g.time_to_skip)
                         ELSE [self |-> s0, ret |-> RetVoid]
             IN  IF burn.ret.kind = "raise"
                 THEN [self |-> burn.self, gen |-> [g EXCEPT !.pc = "done"],
                       ret |-> burn.ret]
                 ELSE pulses_read(burn.self, g, 1)

\* Datfile.pulses from its first line to the first yield.  The outcome of
\* the skipped read is taken from a one-element set, so that it is worked
\* out once and not at each place that uses it.
pulses_start(s, g) ==
    IF ~s.infdata.hasepoch
    THEN [self |-> s, gen |-> [g EXCEPT !.pc = "done"],
          ret |-> Raise("NotImplementedError")]
    ELSE LET s0 == rewind(s)
             after_skip(burn) ==
                 IF burn.ret.kind = "raise"
                 THEN [self |-> burn.self, gen |-> [g EXCEPT !.pc = "done"],
                       ret |-> burn.ret]
                 ELSE pulses_read(burn.self, g, 1)
         IN  CHOOSE r \in { after_skip(burn) :
                     burn \in { IF g.time_to_skip > 0
                                THEN read_Tseconds(s0, g.time_to_skip)
                                ELSE [self |-> s0, ret |-> RetVoid] } } : TRUE

\* pulses as it would be without `pulse_number += 1`.
pulses_resume_same_number(s, g) == pulses_read(s, g, g.pulse_number)

\* pulses as it would be reading each further pulse from the start of the
\* file.
pulses_resume_rewinds(s, g) == pulses_read(rewind(s), g, g.pulse_number + 1)

\* Datfile.pulses from the yield to the next one.
pulses_resume(s, g) == pulses_read(s, g, g.pulse_number + 1)

\* next() on the generator.
gen_next(s, g) ==
    IF g.pc = "created" THEN pulses_start(s, g)
    ELSE IF g.pc = "suspended" THEN pulses_resume(s, g)
    ELSE [self |-> s, gen |-> g, ret |-> RetStop]

\* ------------------------------------------------------------ sidecar
\* Strings the code looks into are sequences of characters.
DotDat == <<".", "d", "a", "t">>
DotInf == <<".", "i", "n", "f">>

\* str.endswith
endswith(str, suffix) ==
    /\ Len(str) >= Len(suffix)
    /\ SubSeq(str, Len(str) - Len(suffix) + 1, Len(str)) = suffix

\* str.lower, on the letters the instrument names are written with
LowerOf ==
    [S |-> "s", P |-> "p", I |-> "i", G |-> "g", O |-> "o", T |-> "t",
     U |-> "u", W |-> "w", A |-> "a"]

lower(str) ==
    [i \in 1..Len(str) |->
        IF str[i] \in DOMAIN LowerOf THEN LowerOf[str[i]] ELSE str[i]]

\* `sub in str`
contains(sub, str) ==
    \E i \in 1..(Len(str) - Len(sub) + 1) : SubSeq(str, i, i + Len(sub) - 1) = sub

\* the numbers of correct_infdata, in ticks of 0.01 microseconds, 1/4096 MHz
\* and whole MJDs
SpigotDt == 8192               \* 8.192e-05 s
Width800_1024 == 3200          \* 800.0/1024 MHz
Width800_2048 == 1600          \* 800.0/2048 MHz
Width50_1024 == 200            \* 50.0/1024 MHz
Width50_2048 == 100            \* 50.0/2048 MHz
Offset39365 == 3936500         \* 0.039365 s, as a fraction of a day
Offset39352 == 3935200         \* 0.039352 s
Offset39450 == 3945000         \* 0.039450 s
Mjd53700 == 53700

\* inf.epoch > 0.0, read where the epoch is used; the attribute is missing
\* from an infodata whose file gives no epoch, and reading it fails
epoch_positive(inf) == inf.epoch_day > 0 \/ inf.epoch > 0

add_epoch(inf, offset) ==
    IF ~inf.hasepoch THEN [inf |-> inf, ret |-> Raise("AttributeError")]
    ELSE IF epoch_positive(inf)
    THEN [inf |-> [inf EXCEPT !.epoch = @ + offset], ret |-> RetVoid]
    ELSE [inf |-> inf, ret |-> RetVoid]

\* `inf.tepoch += ...`: infodata is not known to set an attribute tepoch;
\* where it has none the statement fails, where it has one that one is
\* moved and the epoch stays.
add_tepoch(inf, offset) ==
    IF ~inf.hasepoch THEN [inf |-> inf, ret |-> Raise("AttributeError")]
    ELSE IF epoch_positive(inf)
    THEN IF inf.hastepoch
         THEN [inf |-> [inf EXCEPT !.tepoch = @ + offset], ret |-> RetVoid]
         ELSE [inf |-> inf, ret |-> Raise("AttributeError")]
    ELSE [inf |-> inf, ret |-> RetVoid]

\* correct_infdata below its test for the telescope
spigot_correction(inf) ==
    IF /\ inf.dt % SpigotDt = 0
       /\ \/ contains(<<"s", "p", "i", "g", "o", "t">>, lower(inf.instrument))
          \/ ~contains(<<"g", "u", "p", "p", "i">>, lower(inf.instrument))
    THEN IF inf.chan_width = Width800_1024
         THEN add_epoch([inf EXCEPT !.lofreq = @ - inf.chan_width \div 2],
                        Offset39365)
         ELSE IF inf.chan_width = Width800_2048
         THEN LET lowered == [inf EXCEPT !.lofreq = @ - inf.chan_width \div 2]
              IN  IF ~inf.hasepoch
                  THEN [inf |-> lowered, ret |-> Raise("AttributeError")]
                  ELSE IF inf.epoch_day < Mjd53700
                  THEN add_tepoch(lowered, Offset39352)
                  ELSE add_epoch(lowered, Offset39365)
         ELSE IF inf.chan_width = Width50_1024 \/ inf.chan_width = Width50_2048
         THEN add_epoch([inf EXCEPT !.lofreq = @ + inf.chan_width \div 2],
                        Offset39450)
         ELSE [inf |-> inf, ret |-> RetVoid]
    ELSE [inf |-> inf, ret |-> RetVoid]

\* correct_infdata as it would be without the test for the telescope
correct_infdata_any_telescope(inf) == spigot_correction(inf)

\* correct_infdata: the object as it is left, and the exception if one
\* leaves the call
correct_infdata(inf) ==
    IF inf.telescope = "GBT"
    THEN spigot_correction(inf)
    ELSE [inf |-> inf, ret |-> RetVoid]

\* ------------------------------------------------------------ machine
\* Datfile.__init__ on a path ending in '.dat': the sidecar is loaded and
\* the counters are initialised by rewind().  Without an epoch the two MJD
\* attributes do not exist; they are held at 0 and never read.
NewDatfile(inf) ==
    rewind([infdata |-> inf, datfile |-> 0, currsample |-> 0,
            currtime_actual |-> 0, currtime_desired |-> 0,
            currmjd_actual |-> 0, currmjd_desired |-> 0])

NoCall == [op |-> "__init__", arg |-> 0]

\* nothing written, no plot: the state of the parts a specification does
\* not follow
NoFiles == [dat |-> <<>>, inf |-> <<>>, names |-> {}]
NoPlot ==
    [xaxis |-> "", yaxis |-> "", prefit |-> FALSE, xind |-> 0, yind |-> 0,
     bytes_is_str |-> FALSE]

NoOthers ==
    /\ inflines = <<>>
    /\ written = NoFiles
    /\ candlist = <<>>
    /\ plot = NoPlot

\* Where Datfile(...) has made no reader: the counters do not exist.
NoDatfile ==
    [infdata |-> [N |-> 0, dt |-> 0, hasepoch |-> FALSE, epoch |-> 0],
     datfile |-> 0, currsample |-> 0,
     currtime_actual |-> 0, currtime_desired |-> 0,
     currmjd_actual |-> 0, currmjd_desired |-> 0]

\* datfn[:-4] and "%s.inf" % basefn
basefn(fn) == SubSeq(fn, 1, Len(fn) - 4)
inffn(fn) == basefn(fn) \o DotInf

\* Datfile.__init__(datfn) where the .inf file holds `side`.  `raise` of a
\* str is itself an error: the statement raises TypeError (exceptions must
\* derive from BaseException).
__init__(fn, side) ==
    IF endswith(fn, DotDat)
    THEN LET files == {fn, inffn(fn)}
             corrected == correct_infdata(side)
         IN  IF corrected.ret.kind = "raise"
             THEN [self |-> NoDatfile, opened |-> files, ret |-> corrected.ret]
             ELSE [self |-> NewDatfile(corrected.inf), opened |-> files,
                   ret |-> RetVoid]
    ELSE [self |-> NoDatfile, opened |-> {}, ret |-> Raise("TypeError")]

\* the path of the readers followed call by call
GoodPath == <<"a", ".", "d", "a", "t">>

Init ==
    /\ \E inf \in Infdatas : self = NewDatfile(inf)
    /\ call = NoCall
    /\ ret = RetVoid
    /\ pre = self
    /\ windows = <<>>
    /\ gen = NoGen
    /\ datfn = GoodPath
    /\ sidecar = self.infdata
    /\ opened = {GoodPath, inffn(GoodPath)}
    /\ NoOthers

\* One call of a public method: `pre` keeps the reader as it was when the
\* call was made, `call` the method and its argument, `ret` what came back.
\* No method catches an exception: one that leaves a call ends the caller's
\* use of the reader, and no further call is made.  A caller that turns to
\* another method has dropped the generator of pulses it was advancing.
Do(op, arg, r) ==
    /\ ret.kind # "raise"
    /\ self' = r.self
    /\ call' = [op |-> op, arg |-> arg]
    /\ ret' = r.ret
    /\ pre' = self
    /\ windows' = <<>>
    /\ gen' = NoGen
    /\ UNCHANGED <<datfn, sidecar, opened>>
    /\ UNCHANGED others

Rewind == Do("rewind", 0, [self |-> rewind(self), ret |-> RetVoid])

ReadNsamples == \E n \in 0..(MaxN + 1) : Do("read_Nsamples", n, read_Nsamples(self, n))

ReadTseconds == \E T \in 0..MaxT : Do("read_Tseconds", T, read_Tseconds(self, T))

ReadTo == \E n \in -1..(MaxN + 1) : Do("read_to", n, read_to(self, n))

SeekTo == \E T \in 0..MaxT : Do("seek_to", T, seek_to(self, T))

ReadAll == Do("read_all", 0, read_all(self))

\* get_baseline_spline(span): `windows` keeps the blocks the loop read.
GetBaselineSpline ==
    \E span \in 1..MaxT :
        LET r == get_baseline_spline(self, span)
        IN  /\ ret.kind # "raise"
            /\ self' = r.self
            /\ call' = [op |-> "get_baseline_spline", arg |-> span]
            /\ ret' = r.ret
            /\ pre' = self
            /\ windows' = r.blocks
            /\ gen' = NoGen
            /\ UNCHANGED <<datfn, sidecar, opened>>
            /\ UNCHANGED others

\* pulses(period_at_mjd, time_to_skip): the call makes the generator object
\* and runs none of the method's code.
Pulses ==
    \E f \in PeriodFns : \E skip \in 0..MaxSkip :
        /\ ret.kind # "raise"
        /\ gen' = NewGen(f, skip)
        /\ call' = [op |-> "pulses", arg |-> skip]
        /\ ret' = RetVoid
        /\ pre' = self
        /\ windows' = <<>>
        /\ UNCHANGED <<self, datfn, sidecar, opened>>
        /\ UNCHANGED others

\* next() on the generator made last.  PulseCap is never reached: a file
\* holds fewer than (N + 1) * dt periods of one tick or more.
PulseCap == (MaxN + 1) * MaxDt + 1

PulsesNext ==
    /\ gen.pc # "none"
    /\ ret.kind # "raise"
    /\ gen.pulse_number < PulseCap
    /\ LET r == gen_next(self, gen)
       IN  /\ self' = r.self
           /\ gen' = r.gen
           /\ call' = [op |-> "next", arg |-> 0]
           /\ ret' = r.ret
           /\ pre' = self
           /\ windows' = <<>>
           /\ UNCHANGED <<datfn, sidecar, opened>>
           /\ UNCHANGED others

Next ==
    \/ Rewind
    \/ ReadNsamples
    \/ ReadTseconds
    \/ ReadTo
    \/ SeekTo
    \/ ReadAll
    \/ GetBaselineSpline
    \/ Pulses
    \/ PulsesNext

Spec == Init /\ [][Next]_vars

\* One iteration over pulses(...) on a new reader, advanced until it ends
\* and not interrupted by other calls: a for loop over the generator.
InitPulses ==
    /\ \E inf \in Infdatas : self = NewDatfile(inf)
    /\ \E f \in PeriodFns : \E skip \in 0..MaxSkip : gen = NewGen(f, skip)
    /\ call = [op |-> "pulses", arg |-> gen.time_to_skip]
    /\ ret = RetVoid
    /\ pre = self
    /\ windows = <<>>
    /\ datfn = GoodPath
    /\ sidecar = self.infdata
    /\ opened = {GoodPath, inffn(GoodPath)}
    /\ NoOthers

SpecPulses == InitPulses /\ [][PulsesNext]_vars /\ WF_vars(PulsesNext)

\* Construction on its own: the paths a caller may give and the .inf files
\* that may lie next to the sample file.
Paths ==
    { GoodPath,
      <<".", "d", "a", "t">>,
      <<"a", ".", "t", "x", "t">>,
      <<"a", ".", "D", "A", "T">>,
      <<"a", ".", "d", "a", "t", ".", "g", "z">>,
      <<"a", "d", "a", "t">>,
      <<"d", "a", "t">>,
      <<>> }

Telescopes == {"GBT", "Arecibo"}

Instruments ==
    { <<"s", "p", "i", "g", "o", "t">>,
      <<"S", "p", "i", "g", "o", "t">>,
      <<"G", "U", "P", "P", "I">>,
      <<"W", "A", "P", "P">> }

ChanWidths == {Width800_1024, Width800_2048, Width50_1024, Width50_2048, 4096}

SampleIntervals == {SpigotDt, 2 * SpigotDt, 10000}

EpochDays == {0, 50000, 53700}

Sidecars ==
    { [N |-> MaxN, dt |-> d, hasepoch |-> h, epoch |-> 0, epoch_day |-> e,
       telescope |-> t, instrument |-> i, chan_width |-> w, lofreq |-> 4096000,
       hastepoch |-> k, tepoch |-> 0] :
        d \in SampleIntervals, h \in BOOLEAN, e \in EpochDays, t \in Telescopes,
        i \in Instruments, w \in ChanWidths, k \in BOOLEAN }

NotCalled == [op |-> "none", arg |-> 0]

InitLoad ==
    /\ datfn \in Paths
    /\ sidecar \in {i \in Sidecars : i.hasepoch \/ i.epoch_day = 0}
    /\ opened = {}
    /\ self = NoDatfile
    /\ call = NotCalled
    /\ ret = RetVoid
    /\ pre = self
    /\ windows = <<>>
    /\ gen = NoGen
    /\ NoOthers

\* Datfile(datfn)
Construct ==
    /\ call = NotCalled
    /\ LET r == __init__(datfn, sidecar)
       IN  /\ self' = r.self
           /\ opened' = r.opened
           /\ ret' = r.ret
    /\ call' = NoCall
    /\ pre' = self
    /\ UNCHANGED <<windows, gen, datfn, sidecar>>
    /\ UNCHANGED others

SpecLoad == InitLoad /\ [][Construct]_vars

\* ------------------------------------------------------------ write_debaselined
\* Text is a sequence of characters; the labels of the .inf lines are kept,
\* the padding and the wording after them are shortened.
Debasline == <<".", "d", "e", "b", "a", "s", "l", "i", "n", "e">>
DataFileName ==
    <<" ", "D", "a", "t", "a", " ", "f", "i", "l", "e", " ", "n", "a", "m", "e">>
NumberOfBins ==
    <<" ", "N", "u", "m", "b", "e", "r", " ", "o", "f", " ", "b", "i", "n", "s", " ">>

\* str.startswith
startswith(str, prefix) ==
    /\ Len(str) >= Len(prefix)
    /\ SubSeq(str, 1, Len(prefix)) = prefix

\* `not line.strip()`
strip_is_empty(line) == \A i \in 1..Len(line) : line[i] \in {" ", "\t", "\n"}

\* `for line in inffile`: the lines of a text, each with its newline (the
\* last one may have none)
RECURSIVE file_lines(_)
file_lines(text) ==
    IF text = <<>> THEN <<>>
    ELSE LET ends == {i \in 1..Len(text) : text[i] = "\n"} \cup {Len(text)}
             k == CHOOSE i \in ends : \A j \in ends : i <= j
         IN  <<SubSeq(text, 1, k)>> \o file_lines(SubSeq(text, k + 1, Len(text)))

\* "%d" % n
Digits == <<"0", "1", "2", "3", "4", "5", "6", "7", "8", "9">>

RECURSIVE decimal(_)
decimal(n) ==
    IF n < 0 THEN <<"-">> \o decimal(-n)
    ELSE IF n < 10 THEN <<Digits[n + 1]>>
    ELSE decimal(n \div 10) \o <<Digits[(n % 10) + 1]>>

\* int(a / b) for b > 0: towards zero
trunc(a, b) == IF a >= 0 THEN a \div b ELSE -((-a) \div b)

data_file_name_line(outbase) ==
    DataFileName \o <<" ", "=", " ">> \o outbase \o <<"\n">>

number_of_bins_line(nout) ==
    NumberOfBins \o <<"=", " ">> \o decimal(nout) \o <<"\n">>

provenance_line(span) ==
    <<" ", "B", "a", "s", "e", "l", "i", "n", "e", " ">> \o decimal(span) \o <<"\n">>

\* the loop over the lines of the .inf file: what it writes
RECURSIVE copy_inf(_, _, _)
copy_inf(lines, outbase, nout) ==
    IF lines = <<>> THEN <<>>
    ELSE LET line == Head(lines)
             out == IF strip_is_empty(line) THEN <<>>
                    ELSE IF startswith(line, DataFileName)
                    THEN data_file_name_line(outbase)
                    ELSE IF startswith(line, NumberOfBins)
                    THEN number_of_bins_line(nout)
                    ELSE line
         IN  out \o copy_inf(Tail(lines), outbase, nout)

\* what data[:nout] does with the float nout: NumPy 1.12 and later refuse a
\* float as an index, earlier ones cut it down to an integer
FloatIndex == {"TypeError", "truncate"}

\* write_debaselined from `nout = ...` on: data is what read_all handed
\* back, outbase the name without suffix.  The values written to the .dat
\* file are not followed, only how many there are.
write_debaselined_files(data, outbase, text, files, span, float_index) ==
    LET len == Len(data.ret.data)
        nout == trunc(2 * data.self.infdata.dt * len - span,
                      2 * data.self.infdata.dt)
    IN  IF data.ret.kind # "data" \/ float_index = "TypeError"
        THEN [self |-> data.self, written |-> files, ret |-> Raise("TypeError")]
        ELSE [self |-> data.self,
              written |->
                  [dat |-> Samples(0, Min(Max(nout, 0), len)),
                   inf |-> copy_inf(file_lines(text), outbase, nout)
                             \o provenance_line(span),
                   names |-> {outbase \o DotDat, outbase \o DotInf}],
              ret |-> RetData(outbase \o DotDat)]

\* write_debaselined after `spline = self.get_baseline_spline(span)`
write_debaselined_data(spline, outbase, text, files, span, float_index) ==
    IF spline.ret.kind = "raise"
    THEN [self |-> spline.self, written |-> files, ret |-> spline.ret]
    ELSE write_debaselined_files(read_all(rewind(spline.self)), outbase,
                                 text, files, span, float_index)

\* Datfile.write_debaselined(span) on the reader s made from the path fn,
\* with `text` in the .inf file and `files` written before.
write_debaselined(s, fn, text, files, span, float_index) ==
    write_debaselined_data(get_baseline_spline(s, span),
                           basefn(fn) \o Debasline,
                           text, files, span, float_index)

\* the lines an .inf file is made of here
InfLines ==
    { DataFileName \o <<" ", "=", " ", "a", "\n">>,
      NumberOfBins \o <<"=", " ", "3", "\n">>,
      <<" ", "D", "M", " ", "=", " ", "1", "\n">>,
      <<"\n">> }

\* the texts of up to MaxLines such lines
RECURSIVE texts_of(_, _)
texts_of(lines, n) ==
    IF n = 0 THEN {<<>>}
    ELSE LET shorter == texts_of(lines, n - 1)
         IN  shorter \cup {t \o l : t \in shorter, l \in lines}

InfTexts == texts_of(InfLines, MaxLines) \ {<<>>}

InitWrite ==
    /\ \E inf \in Infdatas : self = NewDatfile(inf)
    /\ call = NoCall
    /\ ret = RetVoid
    /\ pre = self
    /\ windows = <<>>
    /\ gen = NoGen
    /\ datfn = GoodPath
    /\ sidecar = self.infdata
    /\ opened = {GoodPath, inffn(GoodPath)}
    /\ inflines \in InfTexts
    /\ written = NoFiles
    /\ candlist = <<>>
    /\ plot = NoPlot

\* one call of write_debaselined on the reader as it was made
WriteDebaselined ==
    \E span \in 1..MaxT : \E float_index \in FloatIndex :
        LET r == write_debaselined(self, datfn, inflines, written, span, float_index)
        IN  /\ call = NoCall
            /\ self' = r.self
            /\ written' = r.written
            /\ ret' = r.ret
            /\ call' = [op |-> "write_debaselined", arg |-> span]
            /\ pre' = self
            /\ UNCHANGED <<windows, gen, datfn, sidecar, opened, inflines, candlist, plot>>

SpecWrite == InitWrite /\ [][WriteDebaselined]_vars

\* ------------------------------------------------------------ accelcands
\* A line of a *.accelcands file, by what parse_candlist finds in it:
\*   content   line.partition("#")[0].strip() is not empty
\*   cand      candinfo_re matches the line
\*   hit       dmhit_re matches the line
\*   numeric   int() and float() take the fields the match gives
\* `text` is a line of that kind, `id` tells the lines of a file apart.
CandLine(id) ==
    [text |-> "f:1 1 2 3 4 5 6 7 8 9 (1)", id |-> id,
     content |-> TRUE, cand |-> TRUE, hit |-> FALSE, numeric |-> TRUE]
CandLineNotNumeric ==
    [text |-> "f:1 x 2 3 4 5 6 7 8 9 (1)", id |-> 3,
     content |-> TRUE, cand |-> TRUE, hit |-> FALSE, numeric |-> FALSE]
HitLine ==
    [text |-> "  DM= 1.0 SNR= 2.0", id |-> 4,
     content |-> TRUE, cand |-> FALSE, hit |-> TRUE, numeric |-> TRUE]
HitLineNotNumeric ==
    [text |-> "  DM= SNR=", id |-> 5,
     content |-> TRUE, cand |-> FALSE, hit |-> TRUE, numeric |-> FALSE]
CommentLine ==
    [text |-> "# file:candnum DM SNR", id |-> 6,
     content |-> FALSE, cand |-> FALSE, hit |-> FALSE, numeric |-> FALSE]
OtherLine ==
    [text |-> "f:1 1 2 3 4 5 6 7 8 9 (1) # best", id |-> 7,
     content |-> TRUE, cand |-> FALSE, hit |-> FALSE, numeric |-> FALSE]

CandLines ==
    {CandLine(1), CandLine(2), CandLineNotNumeric, HitLine, HitLineNotNumeric,
     CommentLine, OtherLine}

\* Candidate(**cdict) with its empty list of DM hits
Candidate(line) == [cand |-> line.id, dmhits |-> <<>>]

\* cands[-1].add_dmhit(...)
add_dmhit(cands, line) ==
    [cands EXCEPT ![Len(cands)].dmhits = Append(@, line.id)]

\* the loop of parse_candlist from the line at the head of `lines` on, with
\* the candidates found so far in `cands`
RECURSIVE parse_lines(_, _)
parse_lines(lines, cands) ==
    IF lines = <<>> THEN RetData(cands)
    ELSE LET line == Head(lines)
         IN  IF ~line.content THEN parse_lines(Tail(lines), cands)
             ELSE IF line.cand
             THEN IF ~line.numeric THEN Raise("ValueError")
                  ELSE parse_lines(Tail(lines), Append(cands, Candidate(line)))
             ELSE IF line.hit
             THEN IF cands = <<>> THEN Raise("IndexError")
                  ELSE IF ~line.numeric THEN Raise("ValueError")
                  ELSE parse_lines(Tail(lines), add_dmhit(cands, line))
             ELSE Raise("AccelcandsError")

\* parse_candlist on an open file of these lines
parse_candlist(lines) == parse_lines(lines, <<>>)

\* the files of up to MaxLines lines
RECURSIVE files_of(_, _)
files_of(lines, n) ==
    IF n = 0 THEN {<<>>}
    ELSE LET shorter == files_of(lines, n - 1)
         IN  shorter \cup {Append(f, l) : f \in shorter, l \in lines}

InitCands ==
    /\ candlist \in files_of(CandLines, MaxLines)
    /\ self = NoDatfile
    /\ call = NotCalled
    /\ ret = RetVoid
    /\ pre = self
    /\ windows = <<>>
    /\ gen = NoGen
    /\ datfn = <<>>
    /\ sidecar = NoDatfile.infdata
    /\ opened = {}
    /\ inflines = <<>>
    /\ written = NoFiles
    /\ plot = NoPlot

ParseCandlist ==
    /\ call = NotCalled
    /\ ret' = parse_candlist(candlist)
    /\ call' = [op |-> "parse_candlist", arg |-> 0]
    /\ UNCHANGED <<self, pre, windows, gen, datfn, sidecar, opened>>
    /\ UNCHANGED others

SpecCands == InitCands /\ [][ParseCandlist]_vars

\* ------------------------------------------------------------ pyplotres
\* Available x-axis and y-axis types (a Python list index i is i + 1 here)
xvals == <<"mjd", "year", "numtoa", "orbitphase">>
yvals == <<"phase", "usec", "sec">>

\* the keys followed: the two that cycle the axes in either case, the
\* prefit toggle, and 'r', which replots and changes nothing
Keys == {" ", "t", "T", "p", "P", "r"}

\* keypress(event): p is the module's state (options.xaxis, options.yaxis,
\* options.prefit, xind, yind); bytes_is_str says whether the interpreter's
\* str is bytes, which the handler's first test asks of the key
keypress(p, key) ==
    IF ~p.bytes_is_str THEN p
    ELSE IF lower(<<key>>) = <<" ">>
         THEN LET xind == (p.xind + 1) % Len(xvals)
              IN  [p EXCEPT !.xind = xind, !.xaxis = xvals[xind + 1]]
    ELSE IF lower(<<key>>) = <<"t">>
         THEN LET yind == (p.yind + 1) % Len(yvals)
              IN  [p EXCEPT !.yind = yind, !.yaxis = yvals[yind + 1]]
    ELSE IF key = "p"
         THEN [p EXCEPT !.prefit = ~p.prefit]
    ELSE p

\* the values of -x and -y parse_options lets through, in lower case
parse_options ==
    {[xaxis |-> x, yaxis |-> y, prefit |-> f] :
        x \in {xvals[i] : i \in DOMAIN xvals},
        y \in {yvals[i] : i \in DOMAIN yvals},
        f \in BOOLEAN}

\* the program as the first plot is shown: the options as given, the two
\* indices as the module sets them
InitPlot ==
    /\ \E options \in parse_options, b \in BOOLEAN :
          plot = [xaxis |-> options.xaxis, yaxis |-> options.yaxis,
                  prefit |-> options.prefit, xind |-> 0, yind |-> 0,
                  bytes_is_str |-> b]
    /\ self = NoDatfile
    /\ call = NotCalled
    /\ ret = RetVoid
    /\ pre = self
    /\ windows = <<>>
    /\ gen = NoGen
    /\ datfn = <<>>
    /\ sidecar = NoDatfile.infdata
    /\ opened = {}
    /\ inflines = <<>>
    /\ written = NoFiles
    /\ candlist = <<>>

Keypress ==
    \E key \in Keys :
        /\ plot' = keypress(plot, key)
        /\ call' = [op |-> "keypress", arg |-> key]
        /\ ret' = RetVoid
        /\ UNCHANGED <<self, pre, windows, gen, datfn, sidecar, opened>>
        /\ UNCHANGED <<inflines, written, candlist>>

SpecPlot == InitPlot /\ [][Keypress]_vars

\* ------------------------------------------------------------ claims
\* samples still to come according to the counters
remaining(s) == s.infdata.N - s.currsample

\* C1: in every reachable state the current sample index lies in 0 .. N,
\* N the sample count of the metadata.
C1_CurrsampleInRange ==
    /\ 0 <= self.currsample
    /\ self.currsample <= self.infdata.N

\* C2: read_Nsamples(n) with fewer than n samples remaining returns None
\* and leaves every field of the reader as it was.
C2_ShortReadLeavesState ==
    (call.op = "read_Nsamples" /\ pre.currsample + call.arg > pre.infdata.N)
        => (ret = RetNone /\ self = pre)

C2_Witness ==
    /\ call.op = "read_Nsamples"
    /\ pre.currsample > 0
    /\ pre.currsample < pre.infdata.N
    /\ pre.currtime_desired # pre.currtime_actual
    /\ pre.currsample + call.arg > pre.infdata.N
    /\ ret.kind = "None"

\* C3: read_Nsamples(n) with at least n samples remaining returns exactly
\* the n samples currsample .. currsample+n-1, advances the sample index by
\* n, the actual and the desired time by n*dt, and so keeps the difference
\* desired - actual.
C3_ReadAdvancesInLockstep ==
    (call.op = "read_Nsamples" /\ pre.currsample + call.arg <= pre.infdata.N)
        => /\ ret = RetData(Samples(pre.currsample, call.arg))
           /\ Len(ret.data) = call.arg
           /\ self.currsample = pre.currsample + call.arg
           /\ self.currtime_actual = pre.currtime_actual + call.arg * pre.infdata.dt
           /\ self.currtime_desired = pre.currtime_desired + call.arg * pre.infdata.dt
           /\ self.currtime_desired - self.currtime_actual
                = pre.currtime_desired - pre.currtime_actual

\* C4: read_Tseconds(T) asks for c = round((desired + T)/dt) - currsample
\* samples; when c samples remain it returns them, advances the sample index
\* by c and the desired time by exactly T; otherwise it returns None and
\* changes nothing.
C4_ReadTseconds ==
    call.op = "read_Tseconds" =>
        LET c == np_round(pre.currtime_desired + call.arg, pre.infdata.dt)
                    - pre.currsample
        IN  IF pre.currsample + c <= pre.infdata.N
            THEN /\ ret = RetData(Samples(pre.currsample, c))
                 /\ self.currsample = pre.currsample + c
                 /\ self.currtime_desired = pre.currtime_desired + call.arg
            ELSE /\ ret = RetNone
                 /\ self = pre

\* C5: in every reachable state desired and actual elapsed time differ by at
\* most one sample interval.
C5_DesiredWithinOneSample ==
    /\ self.currtime_desired - self.currtime_actual <= self.infdata.dt
    /\ self.currtime_actual - self.currtime_desired <= self.infdata.dt

\* C6: with an epoch in the metadata, in every reachable state the actual
\* MJD is the epoch plus the actual elapsed time currsample*dt in days.
C6_ActualMjdFromEpoch ==
    self.infdata.hasepoch =>
        self.currmjd_actual = self.infdata.epoch + self.currsample * self.infdata.dt

\* C7: in every reachable state the actual elapsed time is the current
\* sample index times the sample interval.
C7_ActualTimeIsSampleTimesDt ==
    self.currtime_actual = self.currsample * self.infdata.dt

C7_Witness ==
    /\ call.op = "read_Tseconds"
    /\ ret.kind = "data"
    /\ Len(ret.data) > 0
    /\ pre.currsample > 0
    /\ self.currtime_desired # self.currtime_actual

\* C8: after rewind(), whatever came before, the file position, the sample
\* index and the actual and desired times are 0 and, with an epoch, the
\* actual and desired MJD are the epoch.
C8_RewindResets ==
    call.op = "rewind" =>
        /\ self.datfile = 0
        /\ self.currsample = 0
        /\ self.currtime_actual = 0
        /\ self.currtime_desired = 0
        /\ self.infdata.hasepoch =>
              /\ self.currmjd_actual = self.infdata.epoch
              /\ self.currmjd_desired = self.infdata.epoch

C8_Witness ==
    /\ call.op = "rewind"
    /\ self.infdata.hasepoch
    /\ pre.datfile > 0
    /\ pre.currsample > 0
    /\ pre.currtime_desired > 0
    /\ pre.currtime_desired # pre.currtime_actual
    /\ pre.currmjd_desired # pre.infdata.epoch

\* C9: with r samples remaining and 0 <= n <= r, read_Nsamples(n) followed
\* by read_Nsamples(r-n) returns two blocks whose concatenation is the block
\* of one read_Nsamples(r) from the same position, and both ways end in the
\* same reader state.
C9_SplitReadEqualsWhole ==
    \A n \in 0..remaining(self) :
        LET first == read_Nsamples(self, n)
            second == read_Nsamples(first.self, remaining(self) - n)
            whole == read_Nsamples(self, remaining(self))
        IN  /\ first.ret.kind = "data"
            /\ second.ret.kind = "data"
            /\ whole.ret.kind = "data"
            /\ first.ret.data \o second.ret.data = whole.ret.data
            /\ second.self = whole.self

C9_Witness ==
    /\ call.op = "read_Nsamples"
    /\ Len(ret.data) >= 1
    /\ remaining(self) >= 2
    /\ self.datfile = self.currsample * bytes_per_sample

\* C10: seek_to(T), in any state, returns s = round(T/dt) and leaves the
\* sample index at s, the file position at sample s, the desired time at T
\* and the actual time at s*dt; it hands back no sample data.
C10_SeekTo ==
    call.op = "seek_to" =>
        LET s == np_round(call.arg, pre.infdata.dt)
        IN  /\ ret = RetInt(s)
            /\ self.currsample = s
            /\ self.datfile = s * bytes_per_sample
            /\ self.currtime_desired = call.arg
            /\ self.currtime_actual = s * pre.infdata.dt

C10_Witness ==
    /\ call.op = "seek_to"
    /\ pre.currsample > 0
    /\ pre.currtime_desired > 0
    /\ call.arg % pre.infdata.dt # 0
    /\ ret.val > 0
    /\ ret.val # pre.currsample

\* C11: for every T and n, seek_to(T) followed by read_Nsamples(n) returns
\* what rewind(), read_Nsamples(round(T/dt)), read_Nsamples(n) returns: the
\* same block, or None in both.
C11_SeekThenReadEqualsReadFromStart ==
    \A T \in 0..MaxT : \A n \in 0..(MaxN + 1) :
        LET sought == seek_to(self, T)
            after_seek == read_Nsamples(sought.self, n)
            skipped == read_Nsamples(rewind(self), np_round(T, self.infdata.dt))
            after_skip == read_Nsamples(skipped.self, n)
        IN  after_seek.ret = after_skip.ret

\* C19: a successful read_to(target) leaves the sample index at target (at
\* N for target -1) and returns target - old index samples; no read_to
\* leaves the sample index below its value before the call.
C19_ReadTo ==
    call.op = "read_to" =>
        LET target == IF call.arg = -1 THEN pre.infdata.N ELSE call.arg
        IN  /\ ret.kind = "data" =>
                /\ self.currsample = target
                /\ Len(ret.data) = target - pre.currsample
            /\ self.currsample >= pre.currsample

\* C20: read_all(), in any state, does what rewind() followed by
\* read_Nsamples(N) does: the same block of all N samples and the same final
\* reader state, with sample index N and actual and desired time N*dt.
C20_ReadAllIsRewindThenReadN ==
    call.op = "read_all" =>
        LET whole == read_Nsamples(rewind(pre), pre.infdata.N)
        IN  /\ ret = whole.ret
            /\ ret = RetData(Samples(0, pre.infdata.N))
            /\ self = whole.self
            /\ self.currsample = pre.infdata.N
            /\ self.currtime_actual = pre.infdata.N * pre.infdata.dt
            /\ self.currtime_desired = pre.infdata.N * pre.infdata.dt

\* the number of samples in a sequence of blocks
RECURSIVE total_len(_)
total_len(blocks) ==
    IF blocks = <<>> THEN 0 ELSE Len(Head(blocks)) + total_len(Tail(blocks))

\* C12 (as stated): read_Tseconds(span) repeated from a rewound reader until
\* it returns None reads windows whose sample counts sum to N, give or take
\* one sample.
C12_WindowsSumToNWithinOne ==
    call.op = "get_baseline_spline" =>
        /\ total_len(windows) - pre.infdata.N <= 1
        /\ pre.infdata.N - total_len(windows) <= 1

\* C12 (amended): the sample counts of the windows sum to at most N and fall
\* short of N by fewer than ceil(span/dt) samples: the last, partial window
\* is not read.
C12_WindowsSumBelowN ==
    call.op = "get_baseline_spline" =>
        /\ total_len(windows) <= pre.infdata.N
        /\ pre.infdata.N - total_len(windows)
             < (call.arg + pre.infdata.dt - 1) \div pre.infdata.dt

C12_Witness ==
    /\ call.op = "get_baseline_spline"
    /\ Len(windows) >= 1
    /\ pre.currsample > 0
    /\ pre.infdata.N - total_len(windows) >= 1
    /\ call.arg % pre.infdata.dt # 0

\* an iteration over pulses(periodAt) with the constant period
\* gen.period.P and no skip has run to its end
constant_period_run_ended ==
    /\ gen.pc = "done"
    /\ ret = RetStop
    /\ gen.period.slope = 0
    /\ gen.time_to_skip = 0

\* C13 (as stated): with an epoch and the constant period P, pulses(periodAt)
\* without skip yields exactly floor(N*dt/P) pulses, and every pulse but
\* possibly the last holds exactly round(P/dt) samples.
C13_PulseCountIsFloor ==
    constant_period_run_ended =>
        /\ Len(gen.out) = (self.infdata.N * self.infdata.dt) \div gen.period.P
        /\ \A i \in 1..(Len(gen.out) - 1) :
               Len(gen.out[i].profile) = np_round(gen.period.P, self.infdata.dt)

\* C13 (amended): it yields exactly K pulses, K the largest k with
\* round(k*P/dt) <= N, and pulse j holds round(j*P/dt) - round((j-1)*P/dt)
\* samples.
C13_PulseCountIsRounded ==
    constant_period_run_ended =>
        LET P == gen.period.P
            dt == self.infdata.dt
            K == Len(gen.out)
        IN  /\ np_round(K * P, dt) <= self.infdata.N
            /\ np_round((K + 1) * P, dt) > self.infdata.N
            /\ \A j \in 1..K :
                   Len(gen.out[j].profile)
                     = np_round(j * P, dt) - np_round((j - 1) * P, dt)

C13_Witness ==
    /\ constant_period_run_ended
    /\ Len(gen.out) >= 2
    /\ gen.period.P % self.infdata.dt # 0
    /\ Len(gen.out) # (self.infdata.N * self.infdata.dt) \div gen.period.P
    /\ \E i \in 1..(Len(gen.out) - 1) :
           Len(gen.out[i].profile) # np_round(gen.period.P, self.infdata.dt)

\* C14: without an epoch in the metadata, pulses(...) ends in
\* NotImplementedError before any pulse is yielded and with the reader
\* untouched: no rewind, no read, counters and times as they were.
C14_NoEpochNoPulses ==
    /\ call.op = "pulses" => (self = pre /\ gen.out = <<>>)
    /\ (call.op = "next" /\ ~pre.infdata.hasepoch) =>
           /\ ret = Raise("NotImplementedError")
           /\ self = pre
           /\ gen.out = <<>>
           /\ gen.pc = "done"

C14_Witness ==
    /\ call.op = "next"
    /\ ~pre.infdata.hasepoch
    /\ ret.kind = "raise"
    /\ pre.currsample > 0
    /\ pre.datfile > 0
    /\ pre.currtime_desired # pre.currtime_actual

\* C15: the pulses of one iteration are numbered 1, 2, 3, ... in the order
\* they are yielded, without gap or repeat, also after a skip.
C15_PulsesNumberedFromOne ==
    /\ \A i \in 1..Len(gen.out) : gen.out[i].number = i
    /\ ret.kind = "yield" => ret.val = Len(gen.out)

C15_Witness ==
    /\ Len(gen.out) >= 3
    /\ ret.kind = "yield"
    /\ gen.time_to_skip > 0
    /\ gen.out[1].time > 0

\* C16: with positive periods, an iteration that is advanced again and again
\* ends after finitely many pulses; it ends at the first read that returns
\* None, and once ended it yields nothing more.
C16_PulsesTerminate ==
    /\ <>[](gen.pc = "done")
    /\ [][gen.pc = "done" => gen' = gen]_vars
    /\ [][(gen'.pc = "done" /\ gen.pc = "suspended")
             => (ret' = RetStop /\ self' = self /\ gen'.out = gen.out)]_vars

C16_Witness ==
    /\ gen.pc = "done"
    /\ ret = RetStop
    /\ Len(gen.out) >= 3
    /\ gen.period.slope = 1

\* C17: Datfile(path) with a path that does not end in '.dat' fails with
\* the format error, opens neither the sample file nor the sidecar, and
\* makes no reader state.
C17_BadPathFormatError ==
    (call = NoCall /\ ~endswith(datfn, DotDat)) =>
        /\ ret = Raise("FormatError")
        /\ opened = {}
        /\ self = NoDatfile

\* the sidecar of the scenario: GBT, spigot, 800.0/1024 MHz, epoch 50000.0
spigot_scenario ==
    /\ call = NoCall
    /\ endswith(datfn, DotDat)
    /\ sidecar.telescope = "GBT"
    /\ sidecar.instrument = <<"s", "p", "i", "g", "o", "t">>
    /\ sidecar.chan_width = Width800_1024
    /\ sidecar.hasepoch
    /\ sidecar.epoch_day = 50000
    /\ sidecar.epoch = 0

spigot_corrected ==
    /\ ret = RetVoid
    /\ self.infdata =
          [sidecar EXCEPT !.lofreq = @ - sidecar.chan_width \div 2,
                          !.epoch = @ + Offset39365]

other_telescope_unchanged ==
    (call = NoCall /\ endswith(datfn, DotDat) /\ sidecar.telescope # "GBT") =>
        (ret = RetVoid /\ self.infdata = sidecar)

\* C18 (as stated): loading the metadata of the scenario lowers lofreq by
\* half a channel and moves the epoch by 0.039365 s, whatever the sample
\* interval; metadata of another telescope is loaded unchanged.
C18_SpigotCorrectionAnyDt ==
    /\ spigot_scenario => spigot_corrected
    /\ other_telescope_unchanged

\* C18 (amended): the scenario is corrected when its sample interval is a
\* whole multiple of 81.92 microseconds and loaded unchanged when not;
\* metadata of another telescope is loaded unchanged.
C18_SpigotCorrectionAtSpigotDt ==
    /\ spigot_scenario =>
           IF sidecar.dt % SpigotDt = 0
           THEN spigot_corrected
           ELSE ret = RetVoid /\ self.infdata = sidecar
    /\ other_telescope_unchanged

C18_Witness ==
    /\ spigot_scenario
    /\ sidecar.dt = 2 * SpigotDt
    /\ self.infdata.lofreq = sidecar.lofreq - 1600
    /\ self.infdata.epoch = 3936500
    /\ self.currmjd_actual = 3936500

\* C21: no read (read_Nsamples, read_Tseconds, read_to, read_all after its
\* rewind) leaves the sample index below where it stood; only rewind and
\* seek_to move it back.
C21_ReadsNeverMoveBack ==
    /\ call.op \in {"read_Nsamples", "read_Tseconds", "read_to"}
          => self.currsample >= pre.currsample
    /\ call.op = "read_all" => self.currsample >= 0

\* k equal read_Tseconds(T) calls in a row from the state s: the state they
\* end in, whether all of them returned samples, and the samples returned
RECURSIVE repeated_reads(_, _, _)
repeated_reads(s, T, k) ==
    IF k = 0 THEN [self |-> s, ok |-> TRUE, data |-> <<>>]
    ELSE LET before == repeated_reads(s, T, k - 1)
             r == read_Tseconds(before.self, T)
         IN  IF before.ok /\ r.ret.kind = "data"
             THEN [self |-> r.self, ok |-> TRUE, data |-> before.data \o r.ret.data]
             ELSE [self |-> before.self, ok |-> FALSE, data |-> before.data]

\* C22: after every read_Tseconds(T) that returned samples the sample index
\* is round(desired time / dt); k such reads from a rewound reader consume
\* round(k*T/dt) samples in all.
C22_NoRoundingDrift ==
    /\ (call.op = "read_Tseconds" /\ ret.kind = "data")
          => self.currsample = np_round(self.currtime_desired, self.infdata.dt)
    /\ \A T \in 0..MaxT : \A k \in 1..MaxReads :
           LET run == repeated_reads(rewind(self), T, k)
           IN  run.ok =>
                 /\ run.self.currsample = np_round(k * T, self.infdata.dt)
                 /\ run.data = Samples(0, np_round(k * T, self.infdata.dt))

C22_Witness ==
    /\ call.op = "read_Tseconds"
    /\ ret.kind = "data"
    /\ Len(ret.data) > 0
    /\ pre.currsample > 0
    /\ pre.currtime_desired # pre.currtime_actual
    /\ self.currtime_desired # self.currtime_actual
    /\ call.arg % self.infdata.dt # 0
    /\ np_round(call.arg, self.infdata.dt) # Len(ret.data)

\* C29: in every reachable state the offset of the file handle is the
\* sample index times the bytes of a sample.
C29_OffsetIsSampleTimesFour ==
    self.datfile = self.currsample * bytes_per_sample

\* C26: with time_to_skip > 0 the first pulse starts at the sample
\* round(time_to_skip/dt): its time is that index times dt, and no pulse
\* holds a sample before it, also when the skip is longer than the file.
C26_FirstPulseAfterSkip ==
    (gen.time_to_skip > 0 /\ Len(gen.out) >= 1) =>
        LET first == np_round(gen.time_to_skip, self.infdata.dt)
        IN  /\ gen.out[1].time = first * self.infdata.dt
            /\ \A i \in 1..Len(gen.out) :
                   \A j \in 1..Len(gen.out[i].profile) :
                       gen.out[i].profile[j] >= first

\* C27: every pulse carries the actual time and MJD the reader had just
\* before the pulse was read and the period period_at_mjd gave for that
\* MJD, and period_at_mjd is called once for each read, before it.
C27_PulseCarriesStateBeforeRead ==
    /\ \A i \in 1..Len(gen.out) :
           /\ gen.asked[i] = gen.out[i].mjd
           /\ gen.out[i].duration = period_at_mjd(gen.period, gen.out[i].mjd)
    /\ Len(gen.asked) = Len(gen.out)
          + (IF gen.pc = "done" /\ self.infdata.hasepoch THEN 1 ELSE 0)
    /\ ret.kind = "yield" =>
           LET p == gen.out[Len(gen.out)]
               span == Len(p.profile) * self.infdata.dt
           IN  /\ p.time = self.currtime_actual - span
               /\ p.mjd = self.currmjd_actual - span
               /\ p.number > 1 =>
                      /\ p.time = pre.currtime_actual
                      /\ p.mjd = pre.currmjd_actual

C27_Witness ==
    /\ ret.kind = "yield"
    /\ Len(gen.out) >= 2
    /\ Len(ret.data) >= 1
    /\ gen.period.slope = 1
    /\ gen.out[1].duration # gen.out[2].duration

\* the blocks of a sequence of blocks, joined
RECURSIVE joined(_)
joined(blocks) ==
    IF blocks = <<>> THEN <<>> ELSE Head(blocks) \o joined(Tail(blocks))

\* C28: get_baseline_spline(span) ends with a spline for every span > 0 and
\* every file, also one shorter than a span, and its windows start at
\* sample 0 and follow one another without gap or overlap.
C28_BaselineSplineAlwaysReturns ==
    call.op = "get_baseline_spline" =>
        /\ ret.kind = "spline"
        /\ joined(windows) = Samples(0, total_len(windows))

\* the profiles of the pulses yielded so far
profiles == [i \in 1..Len(gen.out) |-> gen.out[i].profile]

\* C30: in one iteration pulse k+1 starts where pulse k ended: its time is
\* the time of pulse k plus the samples of pulse k times dt, and the
\* profiles joined are one run of consecutive samples.
C30_PulsesContiguous ==
    /\ \A k \in 1..(Len(gen.out) - 1) :
           gen.out[k + 1].time
             = gen.out[k].time + Len(gen.out[k].profile) * self.infdata.dt
    /\ Len(gen.out) >= 1 =>
           joined(profiles)
             = Samples(gen.out[1].time \div self.infdata.dt, total_len(profiles))

C30_Witness ==
    /\ Len(gen.out) >= 3
    /\ gen.time_to_skip > 0
    /\ gen.out[1].time > 0
    /\ Len(gen.out[1].profile) # Len(gen.out[2].profile)
    /\ Len(gen.out[3].profile) >= 1

\* C23: the .inf file write_debaselined writes holds every line of the
\* original, in order and as it was, but for the 'Data file name' and the
\* 'Number of bins' lines, which are written anew, and one provenance line
\* after them; no line is dropped and none added.
C23_SidecarCopiedLineByLine ==
    call.op = "write_debaselined" =>
        LET orig == file_lines(inflines)
            out == file_lines(written.inf)
        IN  /\ Len(out) = Len(orig) + 1
            /\ out[Len(out)] = provenance_line(call.arg)
            /\ \A i \in 1..Len(orig) :
                   IF startswith(orig[i], DataFileName)
                   THEN startswith(out[i], DataFileName)
                   ELSE IF startswith(orig[i], NumberOfBins)
                   THEN startswith(out[i], NumberOfBins)
                   ELSE out[i] = orig[i]

\* the candidates of a file as C24 reads it: the candidate lines in file
\* order, each with the DM-hit lines between it and the next candidate line
RECURSIVE hits_below(_)
hits_below(lines) ==
    IF lines = <<>> \/ Head(lines).cand THEN <<>>
    ELSE IF Head(lines).hit THEN <<Head(lines).id>> \o hits_below(Tail(lines))
    ELSE hits_below(Tail(lines))

RECURSIVE candidates_in_order(_)
candidates_in_order(lines) ==
    IF lines = <<>> THEN <<>>
    ELSE IF Head(lines).cand
    THEN <<[cand |-> Head(lines).id, dmhits |-> hits_below(Tail(lines))]>>
           \o candidates_in_order(Tail(lines))
    ELSE candidates_in_order(Tail(lines))

\* a line with content that is neither a candidate line nor a DM hit
uninterpretable(line) == line.content /\ ~line.cand /\ ~line.hit

\* C24: parse_candlist fails with AccelcandsError on every file with a line
\* it cannot read as a candidate or a DM hit, and returns for every other
\* file the candidates in file order, each with the DM hits below it; the
\* format of a line causes no other failure.
C24_ParseCandlist ==
    call.op = "parse_candlist" =>
        IF \E i \in 1..Len(candlist) : uninterpretable(candlist[i])
        THEN ret = Raise("AccelcandsError")
        ELSE ret = RetData(candidates_in_order(candlist))

\* the type after `name` in the cycle `vals`
successor(vals, name) ==
    LET i == CHOOSE j \in DOMAIN vals : vals[j] = name
    IN  vals[(i % Len(vals)) + 1]

\* C25: each press of the space key moves the displayed x-axis type to its
\* successor in mjd -> year -> numtoa -> orbitphase -> mjd, each press of
\* 't' does the same for the y-axis in phase -> usec -> sec -> phase,
\* whatever types the program was started with, and after a key press
\* options.xaxis = xvals[xind] and options.yaxis = yvals[yind].
C25_KeysCycleAxes ==
    [][ /\ call'.arg = " " => plot'.xaxis = successor(xvals, plot.xaxis)
        /\ call'.arg = "t" => plot'.yaxis = successor(yvals, plot.yaxis)
        /\ plot'.xaxis = xvals[plot'.xind + 1]
        /\ plot'.yaxis = yvals[plot'.yind + 1] ]_vars

====
